---------------------------- MODULE Spec2Model ----------------------------
(***************************************************************************)
(* Model of the dual-table messenger store of app/models/cassandra_models. *)
(* The two Cassandra tables are sets of rows with upsert on the primary    *)
(* key; every API call is a worker that issues its store statements one    *)
(* at a time, so calls of different workers (server processes) interleave  *)
(* between statements, and a statement may raise.                          *)
(*                                                                         *)
(* SpecAppend: two workers append concurrently, statements may raise.      *)
(* Spec:       worker w1 appends request after request while one listing   *)
(*             request arrives at worker w2 at any moment; a listing does  *)
(*             not write, so every pair of a store state and a listing     *)
(*             result is reached with a single listing request.            *)
(* SpecRepeat: w1 appends and then lists; the same listing request, with   *)
(*             any page, is sent again to w2.                              *)
(* SpecGet:    w1 appends, statements may raise; w2 looks one conversation *)
(*             up by its id.                                               *)
(* SpecConv:   w1 appends and then asks for the conversation of two users; *)
(*             w2 repeats that request; the tokens are in either order.    *)
(* SpecPair:   both workers ask for conversations of two users             *)
(*             concurrently, statements may raise.                         *)
(* SpecWrite:  w1 appends while w2 asks for the conversation of two users. *)
(* SpecBoth:   w1 appends and asks for conversations of two users, one     *)
(*             call after the other, statements may raise.                 *)
(* SpecRepair: w1 appends, statements may raise; w2 lists once.            *)
(* SpecSend:   both workers append and answer the Create-message request.  *)
(* SpecOwner:  w1 appends and asks for conversations of two users; w2      *)
(*             looks one conversation up by its id.                        *)
(* SpecRead:   w1 appends while w2 reads, call after call, and its         *)
(*             statements may raise.                                       *)
(***************************************************************************)
EXTENDS Integers, Sequences, FiniteSets, TLC

(* ------------------------------ bounds -------------------------------- *)
\* message ids uuid4 can draw (an Append needs an id never issued before)
MaxMessages == 2
\* the wall clock runs over 0..MaxClock
MaxClock == 1
\* the largest explicit limit a listing is called with (besides the default)
MaxLimit == 1

(* ------------------------- program constants -------------------------- *)
\* message_text[:100]
PreviewLen == 100
\* limit: int = 20
DefaultLimit == 20

(* ------------------------------ inputs -------------------------------- *)
Procs == {"w1", "w2"}
Users == {"U1", "U2", "U3"}
ConvIds == {1, 2}
MsgIds == 1..MaxMessages
Limits == (1..MaxLimit) \cup {DefaultLimit}
Pages == {0, 1}
BeforeTimes == 1..(MaxClock + 1)

TextHi == <<"h", "i">>
TextLong == [i \in 1..(PreviewLen + 1) |-> IF i <= PreviewLen THEN "a" ELSE "z"]
Texts == {TextHi, TextLong}

\* Optional[List[UUID]]: <<>> is None, <<l>> is the list l
None == <<>>
Some(l) == <<l>>
Args(conversation_id, sender_id, message_text, participant_ids) ==
    [conversation_id |-> conversation_id, sender_id |-> sender_id,
     message_text |-> message_text, participant_ids |-> participant_ids]

\* the Create-message requests the workers receive
AppendArgs ==
    {Args(1, "U1", TextHi, Some(<<"U1", "U2">>)),
     Args(1, "U2", TextLong, None),
     Args(1, "U1", TextLong, Some(<<>>)),
     Args(2, "U3", TextHi, Some(<<"U2", "U1", "U3">>))}

\* the requests of the runs that also list, the conversations listed there
\* and the outcomes of a store statement there
ListedArgs ==
    {Args(1, "U1", TextHi, Some(<<"U1", "U2">>)),
     Args(2, "U2", TextLong, None)}
ListedConvs == {1}
ListedUsers == {"U1", "U2"}
\* in the runs that also list the store applies every statement
Outcomes == {TRUE}

(* ------------------------------- state -------------------------------- *)
VARIABLES
    messages_by_conversation,  \* rows of the message log
    user_conversations,        \* rows of the per-user summary index
    now,                       \* datetime.utcnow()
    issued,                    \* message ids uuid4 has handed out
    writes,                    \* number of write statements the store applied
    ring,                      \* the user ids in the order of their tokens
    pc,                        \* position of each worker in its call
    call                       \* arguments, locals and result of the call

vars == <<messages_by_conversation, user_conversations, now, issued, writes,
          ring, pc, call>>

NoCall == [kind |-> "none"]

Ready(p) == pc[p] \in {"idle", "done", "failed"}

(* --------------------------- the two tables --------------------------- *)
\* PRIMARY KEY (conversation_id, message_timestamp, message_id)
MessageKey(r) == <<r.conversation_id, r.message_timestamp, r.message_id>>

\* PRIMARY KEY (user_id, last_activity, conversation_id)
SummaryKey(r) == <<r.user_id, r.last_activity, r.conversation_id>>

\* INSERT is an upsert: a row with the same primary key is replaced
InsertMessageRow(table, row) ==
    {r \in table : MessageKey(r) # MessageKey(row)} \cup {row}

\* mutant: the index keeps one row per user and conversation
InsertSummaryRowPerConversation(table, row) ==
    {r \in table : r.user_id # row.user_id
                        \/ r.conversation_id # row.conversation_id} \cup {row}

\* mutant: a second INSERT with the primary key of a row adds a row
InsertSummaryRowTwice(table, row) ==
    table \cup {row}

InsertSummaryRow(table, row) ==
    {r \in table : SummaryKey(r) # SummaryKey(row)} \cup {row}

\* mutant: the log is clustered by message_timestamp ascending
MessageBeforeAscending(r, q) ==
    \/ r.message_timestamp < q.message_timestamp
    \/ /\ r.message_timestamp = q.message_timestamp
       /\ r.message_id < q.message_id

\* CLUSTERING ORDER BY (message_timestamp DESC, message_id ASC)
MessageBefore(r, q) ==
    \/ r.message_timestamp > q.message_timestamp
    \/ /\ r.message_timestamp = q.message_timestamp
       /\ r.message_id < q.message_id

\* mutant: the index is clustered by last_activity ascending
SummaryBeforeAscending(r, q) ==
    \/ r.last_activity < q.last_activity
    \/ /\ r.last_activity = q.last_activity
       /\ r.conversation_id < q.conversation_id

\* CLUSTERING ORDER BY (last_activity DESC), conversation_id ascending
SummaryBefore(r, q) ==
    \/ r.last_activity > q.last_activity
    \/ /\ r.last_activity = q.last_activity
       /\ r.conversation_id < q.conversation_id

RECURSIVE ScanMessages(_)
ScanMessages(S) ==
    IF S = {} THEN <<>>
    ELSE LET first == CHOOSE r \in S : \A q \in S \ {r} : MessageBefore(r, q)
         IN  <<first>> \o ScanMessages(S \ {first})

RECURSIVE ScanSummaries(_)
ScanSummaries(S) ==
    IF S = {} THEN <<>>
    ELSE LET first == CHOOSE r \in S : \A q \in S \ {r} : SummaryBefore(r, q)
         IN  <<first>> \o ScanSummaries(S \ {first})

\* LIMIT %s
Limit(rows, limit) ==
    SubSeq(rows, 1, IF limit < Len(rows) THEN limit ELSE Len(rows))

(* ------------------------------ Append -------------------------------- *)
\* mutant: the preview is not cut
PreviewWhole(message_text) == message_text

\* message_text[:100]
Preview(message_text) ==
    SubSeq(message_text, 1,
           IF PreviewLen < Len(message_text) THEN PreviewLen ELSE Len(message_text))

\* mutant: only a missing list defaults to the sender (if participant_ids is None)
ResolveParticipantsNoneOnly(participant_ids, sender_id) ==
    IF participant_ids = None THEN <<sender_id>> ELSE participant_ids[1]

\* if not participant_ids: participant_ids = [sender_id]
ResolveParticipants(participant_ids, sender_id) ==
    IF participant_ids = None \/ participant_ids[1] = <<>>
    THEN <<sender_id>>
    ELSE participant_ids[1]

\* set(participant_ids)
ToSet(list) == {list[i] : i \in 1..Len(list)}

\* mutant: the message id may be one that was issued before
create_message_any_id(p, conversation_id, sender_id, message_text, participant_ids) ==
    /\ Ready(p)
    /\ \E message_id \in MsgIds :
        /\ issued' = issued \cup {message_id}
        /\ call' = [call EXCEPT ![p] =
              [kind |-> "create_message",
               conversation_id |-> conversation_id,
               sender_id |-> sender_id,
               message_text |-> message_text,
               participant_ids |-> participant_ids,
               message_id |-> message_id,
               message_timestamp |-> now,
               n |-> 0]]
    /\ pc' = [pc EXCEPT ![p] = "insert_message"]
    /\ UNCHANGED <<messages_by_conversation, user_conversations, now, writes,
                   ring>>

\* message_id = uuid.uuid4(); message_timestamp = datetime.utcnow()
create_message(p, conversation_id, sender_id, message_text, participant_ids) ==
    /\ Ready(p)
    /\ \E message_id \in MsgIds \ issued :
        /\ issued' = issued \cup {message_id}
        /\ call' = [call EXCEPT ![p] =
              [kind |-> "create_message",
               conversation_id |-> conversation_id,
               sender_id |-> sender_id,
               message_text |-> message_text,
               participant_ids |-> participant_ids,
               message_id |-> message_id,
               message_timestamp |-> now,
               n |-> 0]]
    /\ pc' = [pc EXCEPT ![p] = "insert_message"]
    /\ UNCHANGED <<messages_by_conversation, user_conversations, now, writes,
                   ring>>

\* mutant: the given participants are ignored
ParticipantsSenderOnly(c) == <<c.sender_id>>

\* participant_ids of the call from line 59 on
Participants(c) == ResolveParticipants(c.participant_ids, c.sender_id)

\* mutant: the message write takes the clock again
MessageRowNow(c) ==
    [conversation_id |-> c.conversation_id,
     message_timestamp |-> now,
     message_id |-> c.message_id,
     sender_id |-> c.sender_id,
     message_text |-> c.message_text]

\* the row line 49-55 inserts into messages_by_conversation
MessageRow(c) ==
    [conversation_id |-> c.conversation_id,
     message_timestamp |-> c.message_timestamp,
     message_id |-> c.message_id,
     sender_id |-> c.sender_id,
     message_text |-> c.message_text]

\* mutant: the summary write takes the clock again
SummaryRowNow(c, user_id) ==
    [user_id |-> user_id,
     last_activity |-> now,
     conversation_id |-> c.conversation_id,
     participant_ids |-> ToSet(Participants(c)),
     last_message_preview |-> Preview(c.message_text)]

\* mutant: every summary row of the call is the row of the sender
SummaryRowOfSender(c, user_id) ==
    [user_id |-> c.sender_id,
     last_activity |-> c.message_timestamp,
     conversation_id |-> c.conversation_id,
     participant_ids |-> ToSet(Participants(c)),
     last_message_preview |-> Preview(c.message_text)]

\* mutant: the row stores the list of the request, not the defaulted one
SummaryRowGivenList(c, user_id) ==
    [user_id |-> user_id,
     last_activity |-> c.message_timestamp,
     conversation_id |-> c.conversation_id,
     participant_ids |-> IF c.participant_ids = None THEN {}
                         ELSE ToSet(c.participant_ids[1]),
     last_message_preview |-> Preview(c.message_text)]

\* the row line 69-75 inserts into user_conversations for one participant
SummaryRow(c, user_id) ==
    [user_id |-> user_id,
     last_activity |-> c.message_timestamp,
     conversation_id |-> c.conversation_id,
     participant_ids |-> ToSet(Participants(c)),
     last_message_preview |-> Preview(c.message_text)]

\* mutant: the exception is swallowed and the call goes on
RaiseSwallowed(p) ==
    /\ pc' = [pc EXCEPT ![p] =
                IF call[p].n < Len(Participants(call[p])) THEN "insert_summary"
                ELSE "done"]
    /\ UNCHANGED <<messages_by_conversation, user_conversations, writes, ring>>

\* except Exception as e: raise Exception(...): the call ends, nothing is undone
Raise(p) ==
    /\ pc' = [pc EXCEPT ![p] = "failed"]
    /\ UNCHANGED <<messages_by_conversation, user_conversations, writes, ring>>

\* cassandra_client.execute(insert_query, ...), the first statement of the call
\* ok: the store applies the statement; otherwise execute raises
insert_message(p, ok) ==
    /\ pc[p] = "insert_message"
    /\ call' = [call EXCEPT ![p].n = 1]
    /\ IF ok
       THEN /\ messages_by_conversation' =
                   InsertMessageRow(messages_by_conversation, MessageRow(call[p]))
            /\ writes' = writes + 1
            /\ pc' = [pc EXCEPT ![p] =
                        IF Participants(call[p]) = <<>> THEN "done"
                        ELSE "insert_summary"]
            /\ UNCHANGED user_conversations
       ELSE Raise(p)
    /\ UNCHANGED <<now, issued, ring>>

\* one iteration of: for user_id in participant_ids: cassandra_client.execute(...)
\* statement n+1 of the call writes the row of participant number n
insert_summary(p, ok) ==
    /\ pc[p] = "insert_summary"
    /\ LET c == call[p]
           participants == Participants(c)
       IN  /\ call' = [call EXCEPT ![p].n = c.n + 1]
           /\ IF ok
              THEN /\ user_conversations' =
                        InsertSummaryRow(user_conversations,
                                         SummaryRow(c, participants[c.n]))
                   /\ writes' = writes + 1
                   /\ pc' = [pc EXCEPT ![p] =
                               IF c.n = Len(participants) THEN "done"
                               ELSE "insert_summary"]
                   /\ UNCHANGED messages_by_conversation
              ELSE Raise(p)
    /\ UNCHANGED <<now, issued, ring>>

\* MessageController.send_message after create_message has returned the
\* message id: return MessageResponse(message_id=message_id, ...,
\* message_timestamp=datetime.utcnow(), ...)
send_message(p) ==
    /\ pc[p] = "done"
    /\ call[p].kind = "create_message"
    /\ call' = [call EXCEPT ![p] =
          [kind |-> "send_message",
           message_id |-> call[p].message_id,
           sender_id |-> call[p].sender_id,
           message_text |-> call[p].message_text,
           message_timestamp |-> now,
           conversation_id |-> call[p].conversation_id]]
    /\ UNCHANGED <<messages_by_conversation, user_conversations, now, issued,
                   writes, ring, pc>>

(* ------------------------------ listings ------------------------------ *)
\* if page < 1: page = 1
ClampPage(page) == IF page < 1 THEN 1 ELSE page

\* WHERE conversation_id = %s
ConversationRows(conversation_id) ==
    {r \in messages_by_conversation : r.conversation_id = conversation_id}

\* mutant: message_timestamp <= %s
RowsBeforeInclusive(conversation_id, before_timestamp) ==
    {r \in messages_by_conversation :
        /\ r.conversation_id = conversation_id
        /\ r.message_timestamp <= before_timestamp}

\* WHERE conversation_id = %s AND message_timestamp < %s
RowsBefore(conversation_id, before_timestamp) ==
    {r \in messages_by_conversation :
        /\ r.conversation_id = conversation_id
        /\ r.message_timestamp < before_timestamp}

\* WHERE user_id = %s
UserRows(user_id) ==
    {r \in user_conversations : r.user_id = user_id}

\* SELECT COUNT(*) ... WHERE conversation_id = %s
CountConversation(conversation_id) ==
    Cardinality(ConversationRows(conversation_id))

\* mutant: the select query has lost its WHERE clause
SelectConversationUnfiltered(conversation_id, limit) ==
    Limit(ScanMessages(messages_by_conversation), limit)

\* SELECT ... WHERE conversation_id = %s ORDER BY message_timestamp DESC LIMIT %s
SelectConversation(conversation_id, limit) ==
    Limit(ScanMessages(ConversationRows(conversation_id)), limit)

\* mutant: the count query does not restrict the timestamp
CountBeforeUnrestricted(conversation_id, before_timestamp) ==
    Cardinality(ConversationRows(conversation_id))

\* SELECT COUNT(*) ... WHERE conversation_id = %s AND message_timestamp < %s
CountBefore(conversation_id, before_timestamp) ==
    Cardinality(RowsBefore(conversation_id, before_timestamp))

\* mutant: the select query compares with the current time, not with the
\* timestamp of the request
SelectBeforeNow(conversation_id, before_timestamp, limit) ==
    Limit(ScanMessages(RowsBefore(conversation_id, now)), limit)

\* mutant: the select query compares with <=
SelectBeforeInclusive(conversation_id, before_timestamp, limit) ==
    Limit(ScanMessages(RowsBeforeInclusive(conversation_id, before_timestamp)),
          limit)

\* SELECT ... AND message_timestamp < %s ORDER BY message_timestamp DESC LIMIT %s
SelectBefore(conversation_id, before_timestamp, limit) ==
    Limit(ScanMessages(RowsBefore(conversation_id, before_timestamp)), limit)

\* SELECT COUNT(*) ... FROM user_conversations WHERE user_id = %s
CountUser(user_id) ==
    Cardinality(UserRows(user_id))

\* SELECT ... WHERE user_id = %s ORDER BY last_activity DESC LIMIT %s
SelectUser(user_id, limit) ==
    Limit(ScanSummaries(UserRows(user_id)), limit)

\* the count query of a listing, the first statement of the call; v0 is the
\* number of writes the store had applied when it ran
CountStep(p, args, total, ok) ==
    /\ pc[p] = "idle"
    /\ call' = [call EXCEPT ![p] =
          args @@ [total |-> IF ok THEN total ELSE 0,
                   items |-> <<>>, v0 |-> writes, v1 |-> writes]]
    /\ pc' = [pc EXCEPT ![p] = IF ok THEN "select" ELSE "failed"]
    /\ UNCHANGED <<messages_by_conversation, user_conversations, now, issued,
                   writes, ring>>

\* the select query of a listing, and return list(rows), total; v1 is the
\* number of writes the store had applied when it ran
SelectStep(p, kind, rows, ok) ==
    /\ pc[p] = "select"
    /\ call[p].kind = kind
    /\ call' = [call EXCEPT ![p].items = IF ok THEN rows ELSE <<>>,
                            ![p].v1 = writes]
    /\ pc' = [pc EXCEPT ![p] = IF ok THEN "done" ELSE "failed"]
    /\ UNCHANGED <<messages_by_conversation, user_conversations, now, issued,
                   writes, ring>>

get_conversation_messages(p, conversation_id, page, limit, ok) ==
    CountStep(p,
              [kind |-> "get_conversation_messages",
               conversation_id |-> conversation_id,
               page |-> ClampPage(page), limit |-> limit],
              CountConversation(conversation_id), ok)

get_conversation_messages_select(p, ok) ==
    SelectStep(p, "get_conversation_messages",
               SelectConversation(call[p].conversation_id, call[p].limit), ok)

get_messages_before_timestamp(p, conversation_id, before_timestamp, page, limit, ok) ==
    CountStep(p,
              [kind |-> "get_messages_before_timestamp",
               conversation_id |-> conversation_id,
               before_timestamp |-> before_timestamp,
               page |-> ClampPage(page), limit |-> limit],
              CountBefore(conversation_id, before_timestamp), ok)

get_messages_before_timestamp_select(p, ok) ==
    SelectStep(p, "get_messages_before_timestamp",
               SelectBefore(call[p].conversation_id, call[p].before_timestamp,
                            call[p].limit), ok)

get_user_conversations(p, user_id, page, limit, ok) ==
    CountStep(p,
              [kind |-> "get_user_conversations",
               user_id |-> user_id,
               page |-> ClampPage(page), limit |-> limit],
              CountUser(user_id), ok)

\* mutant: the listing deletes the rows of the user that a newer row of the
\* same conversation has superseded
get_user_conversations_select_dedup(p, ok) ==
    /\ pc[p] = "select"
    /\ call[p].kind = "get_user_conversations"
    /\ call' = [call EXCEPT ![p].items =
                    IF ok THEN SelectUser(call[p].user_id, call[p].limit)
                    ELSE <<>>,
                            ![p].v1 = writes]
    /\ pc' = [pc EXCEPT ![p] = IF ok THEN "done" ELSE "failed"]
    /\ user_conversations' =
          {r \in user_conversations :
              r.user_id = call[p].user_id =>
                  \A t \in UserRows(r.user_id) :
                      t.conversation_id = r.conversation_id =>
                          t.last_activity <= r.last_activity}
    /\ UNCHANGED <<messages_by_conversation, now, issued, writes, ring>>

\* mutant: the page is an offset into the ordered rows of the user
get_user_conversations_select_offset(p, ok) ==
    SelectStep(p, "get_user_conversations",
               LET rows == ScanSummaries(UserRows(call[p].user_id))
                   skip == (call[p].page - 1) * call[p].limit
               IN  Limit([i \in 1..(IF Len(rows) > skip THEN Len(rows) - skip
                                     ELSE 0) |-> rows[i + skip]],
                         call[p].limit),
               ok)

get_user_conversations_select(p, ok) ==
    SelectStep(p, "get_user_conversations",
               SelectUser(call[p].user_id, call[p].limit), ok)

(* --------------------------- conversations ---------------------------- *)
\* the conversation ids uuid4 can draw for a new conversation
NewConvIds == {0, 3}
\* the orders of the tokens of the user ids: either of the two users who
\* look for their conversation comes first
Rings == {<<"U1", "U2", "U3">>, <<"U2", "U1", "U3">>}
\* a local of a call that is not assigned yet
Unset == 0 - 1

\* the rows of a conversation in the order a scan of the whole table returns
\* them: partition after partition in token order, clustering order inside
RECURSIVE ScanTable(_, _)
ScanTable(i, conversation_id) ==
    IF i > Len(ring) THEN <<>>
    ELSE ScanSummaries({r \in UserRows(ring[i]) :
                            r.conversation_id = conversation_id})
         \o ScanTable(i + 1, conversation_id)

\* SELECT conversation_id, participant_ids FROM user_conversations
\*        WHERE conversation_id = %s LIMIT 1
SelectConversationRow(conversation_id) ==
    Limit(ScanTable(1, conversation_id), 1)

\* SELECT conversation_id FROM user_conversations WHERE user_id = %s
SelectConversationIds(user_id) ==
    LET rows == ScanSummaries(UserRows(user_id))
    IN  [i \in 1..Len(rows) |-> rows[i].conversation_id]

\* participants and len(participants) == 2 and user_id in participants
\*        and other_user_id in participants
IsDirect(participants, user_id, other_user_id) ==
    /\ participants # {}
    /\ Cardinality(participants) = 2
    /\ user_id \in participants
    /\ other_user_id \in participants

\* the conversation ids the store or a call in progress holds
UsedConvIds ==
    {r.conversation_id : r \in user_conversations}
        \cup {r.conversation_id : r \in messages_by_conversation}
        \cup {call[q].conversation_id :
                q \in {q \in Procs :
                         call[q].kind = "create_or_get_conversation"}}

\* new_conversation_id = uuid.uuid4(); participant_ids = [user_id,
\* other_user_id]; timestamp = datetime.utcnow()
NewConversation(c, new_conversation_id) ==
    [c EXCEPT !.rows = <<>>, !.conversation_id = new_conversation_id,
              !.participant_ids = <<c.user_id, c.other_user_id>>,
              !.timestamp = now, !.created = TRUE]

\* mutant: the timestamp is taken again for every row
ConversationRowNow(c, uid) ==
    [user_id |-> uid,
     last_activity |-> now,
     conversation_id |-> c.conversation_id,
     participant_ids |-> ToSet(c.participant_ids),
     last_message_preview |-> <<"New conversation">>]

\* the row line 299-305 inserts into user_conversations for one of the two
ConversationRow(c, uid) ==
    [user_id |-> uid,
     last_activity |-> c.timestamp,
     conversation_id |-> c.conversation_id,
     participant_ids |-> ToSet(c.participant_ids),
     last_message_preview |-> <<"New conversation">>]

\* the call leaves the loop over the rows of user_id: it returns conv_id,
\* False at a match, goes on with the next row, or starts a new conversation
\* when no row is left
Examine(p, c, found, new_conversation_id) ==
    IF found
    THEN /\ call' = [call EXCEPT ![p] =
                [c EXCEPT !.conversation_id = Head(c.rows), !.v1 = writes]]
         /\ pc' = [pc EXCEPT ![p] = "done"]
    ELSE IF Len(c.rows) > 1
    THEN /\ call' = [call EXCEPT ![p] = [c EXCEPT !.rows = Tail(c.rows)]]
         /\ pc' = [pc EXCEPT ![p] = "get_conversation"]
    ELSE /\ new_conversation_id \notin UsedConvIds
         /\ call' = [call EXCEPT ![p] = NewConversation(c, new_conversation_id)]
         /\ pc' = [pc EXCEPT ![p] = "insert_conversation"]

\* result = cassandra_client.execute(query, (user_id,)), the first statement
\* of create_or_get_conversation; rows holds the conversation ids of the rows
\* the loop has not left yet, behind a first entry the loop leaves at once; v0
\* is the number of writes the store had applied when the statement ran
create_or_get_conversation(p, user_id, other_user_id, new_conversation_id, ok) ==
    /\ pc[p] = "idle"
    /\ LET c == [kind |-> "create_or_get_conversation",
                 user_id |-> user_id, other_user_id |-> other_user_id,
                 rows |-> <<Unset>> \o SelectConversationIds(user_id),
                 conversation_id |-> Unset, participant_ids |-> <<>>,
                 timestamp |-> Unset, created |-> FALSE, n |-> 0,
                 v0 |-> writes, v1 |-> writes]
       IN  IF ok
           THEN Examine(p, c, FALSE, new_conversation_id)
           ELSE /\ call' = [call EXCEPT ![p] = c]
                /\ pc' = [pc EXCEPT ![p] = "failed"]
    /\ UNCHANGED <<messages_by_conversation, user_conversations, now, issued,
                   writes, ring>>

\* one iteration of: for row in result: conv_details = await
\* ConversationModel.get_conversation(conv_id), and the test of its participants
create_or_get_lookup(p, new_conversation_id, ok) ==
    /\ pc[p] = "get_conversation"
    /\ call[p].kind = "create_or_get_conversation"
    /\ LET c == call[p]
           result == SelectConversationRow(Head(c.rows))
       IN  IF ok /\ result # <<>>
           THEN Examine(p, c,
                        IsDirect(result[1].participant_ids, c.user_id,
                                 c.other_user_id),
                        new_conversation_id)
           ELSE /\ call' = call
                /\ pc' = [pc EXCEPT ![p] = "failed"]
    /\ UNCHANGED <<messages_by_conversation, user_conversations, now, issued,
                   writes, ring>>

\* one iteration of: for uid in participant_ids: cassandra_client.execute(...)
\* and, after the second, return new_conversation_id, True
create_or_get_insert(p, ok) ==
    /\ pc[p] = "insert_conversation"
    /\ LET c == call[p]
       IN  IF ok
           THEN /\ user_conversations' =
                     InsertSummaryRow(user_conversations,
                         ConversationRow(c, c.participant_ids[c.n + 1]))
                /\ writes' = writes + 1
                /\ call' = [call EXCEPT ![p].n = c.n + 1,
                                        ![p].v1 = writes + 1]
                /\ pc' = [pc EXCEPT ![p] =
                            IF c.n + 1 = Len(c.participant_ids) THEN "done"
                            ELSE "insert_conversation"]
           ELSE /\ call' = call
                /\ pc' = [pc EXCEPT ![p] = "failed"]
                /\ UNCHANGED <<user_conversations, writes>>
    /\ UNCHANGED <<messages_by_conversation, now, issued, ring>>

\* the status codes of the answers of the conversation controller
Http200 == 200
Http404 == 404
Http500 == 500

\* mutant: a conversation without rows is answered with 404
StatusNotFound(found, participant_ids) ==
    IF ~found \/ participant_ids = {} THEN Http404 ELSE Http200

\* the status of the answer: except Exception: 500; if not user_id: 404
Status(found, participant_ids) ==
    IF ~found THEN Http500
    ELSE IF participant_ids = {} THEN Http404
    ELSE Http200

\* ConversationController.get_conversation: the one statement of
\* ConversationModel.get_conversation and the answer built from its result;
\* user_id is the first element of list(participant_ids)
get_conversation(p, conversation_id, user_id, ok) ==
    /\ pc[p] = "idle"
    /\ LET result == SelectConversationRow(conversation_id)
           found == ok /\ result # <<>>
           participant_ids == IF found THEN result[1].participant_ids ELSE {}
       IN  /\ participant_ids # {} => user_id \in participant_ids
           /\ call' = [call EXCEPT ![p] =
                 [kind |-> "get_conversation",
                  conversation_id |-> conversation_id,
                  status |-> Status(found, participant_ids),
                  response |-> IF participant_ids = {} THEN <<>>
                               ELSE <<[conversation_id |->
                                           result[1].conversation_id,
                                       user_id |-> user_id,
                                       participant_ids |-> participant_ids]>>,
                  v0 |-> writes]]
           /\ pc' = [pc EXCEPT ![p] =
                       IF participant_ids # {} THEN "done" ELSE "failed"]
    /\ UNCHANGED <<messages_by_conversation, user_conversations, now, issued,
                   writes, ring>>

\* the route returns the result of the call (or its error) and the worker is
\* free for the next request
respond(p) ==
    /\ pc[p] \in {"done", "failed"}
    /\ pc' = [pc EXCEPT ![p] = "idle"]
    /\ call' = [call EXCEPT ![p] = NoCall]
    /\ UNCHANGED <<messages_by_conversation, user_conversations, now, issued,
                   writes, ring>>

(* --------------------------- specification ---------------------------- *)
Init ==
    /\ messages_by_conversation = {}
    /\ user_conversations = {}
    /\ now = 0
    /\ issued = {}
    /\ writes = 0
    /\ ring = <<"U1", "U2", "U3">>
    /\ pc = [p \in Procs |-> "idle"]
    /\ call = [p \in Procs |-> NoCall]

\* the wall clock advances
Tick ==
    /\ now < MaxClock
    /\ now' = now + 1
    /\ UNCHANGED <<messages_by_conversation, user_conversations, issued,
                   writes, pc, call, ring>>

\* two workers append concurrently, and every statement may raise
NextAppend ==
    \/ Tick
    \/ \E p \in Procs, a \in AppendArgs :
          create_message(p, a.conversation_id, a.sender_id, a.message_text,
                         a.participant_ids)
    \/ \E p \in Procs, ok \in BOOLEAN : insert_message(p, ok)
    \/ \E p \in Procs, ok \in BOOLEAN : insert_summary(p, ok)

SpecAppend == Init /\ [][NextAppend]_vars

\* worker w1 appends, one request after the other, while a listing request
\* arrives at worker w2 at any moment
Next ==
    \/ Tick
    \/ \E a \in ListedArgs :
          create_message("w1", a.conversation_id, a.sender_id, a.message_text,
                         a.participant_ids)
    \/ \E ok \in Outcomes : insert_message("w1", ok)
    \/ \E ok \in Outcomes : insert_summary("w1", ok)
    \/ \E c \in ListedConvs, page \in Pages, limit \in Limits, ok \in Outcomes :
          get_conversation_messages("w2", c, page, limit, ok)
    \/ \E ok \in Outcomes : get_conversation_messages_select("w2", ok)
    \/ \E c \in ListedConvs, T \in BeforeTimes, page \in Pages, limit \in Limits,
          ok \in Outcomes :
          get_messages_before_timestamp("w2", c, T, page, limit, ok)
    \/ \E ok \in Outcomes : get_messages_before_timestamp_select("w2", ok)
    \/ \E u \in ListedUsers, page \in Pages, limit \in Limits, ok \in Outcomes :
          get_user_conversations("w2", u, page, limit, ok)
    \/ \E ok \in Outcomes : get_user_conversations_select("w2", ok)

Spec == Init /\ [][Next]_vars

\* the pages a repeated listing request is sent with
RepeatPages == {0, 1, 2}

\* the Create-message requests of the runs that repeat a listing
RepeatArgs ==
    {Args(1, "U1", TextHi, Some(<<"U1", "U2">>))}
RepeatUsers == {"U2"}
RepeatLimits == 1..MaxLimit

\* worker p has returned from a listing call of this kind
Listing(p, kind) ==
    call[p].kind = kind /\ pc[p] = "done"

\* worker w1 appends, request after request, and then receives one listing
\* request; the same listing request, with any page, is sent once more and
\* arrives at worker w2 after w1 has returned
NextRepeat ==
    \/ Tick
    \/ \E a \in RepeatArgs :
          create_message("w1", a.conversation_id, a.sender_id, a.message_text,
                         a.participant_ids)
    \/ \E ok \in Outcomes : insert_message("w1", ok)
    \/ \E ok \in Outcomes : insert_summary("w1", ok)
    \/ call["w1"].kind = "create_message" /\ respond("w1")
    \/ \E c \in ListedConvs, page \in Pages, limit \in RepeatLimits,
          ok \in Outcomes :
          get_conversation_messages("w1", c, page, limit, ok)
    \/ \E c \in ListedConvs, T \in BeforeTimes, page \in Pages,
          limit \in RepeatLimits, ok \in Outcomes :
          get_messages_before_timestamp("w1", c, T, page, limit, ok)
    \/ \E u \in RepeatUsers, page \in Pages, limit \in RepeatLimits,
          ok \in Outcomes :
          get_user_conversations("w1", u, page, limit, ok)
    \/ \E page \in RepeatPages, ok \in Outcomes :
          /\ Listing("w1", "get_conversation_messages")
          /\ get_conversation_messages("w2", call["w1"].conversation_id, page,
                                       call["w1"].limit, ok)
    \/ \E page \in RepeatPages, ok \in Outcomes :
          /\ Listing("w1", "get_messages_before_timestamp")
          /\ get_messages_before_timestamp("w2", call["w1"].conversation_id,
                                           call["w1"].before_timestamp, page,
                                           call["w1"].limit, ok)
    \/ \E page \in RepeatPages, ok \in Outcomes :
          /\ Listing("w1", "get_user_conversations")
          /\ get_user_conversations("w2", call["w1"].user_id, page,
                                    call["w1"].limit, ok)
    \/ \E p \in Procs, ok \in Outcomes : get_conversation_messages_select(p, ok)
    \/ \E p \in Procs, ok \in Outcomes :
          get_messages_before_timestamp_select(p, ok)
    \/ \E p \in Procs, ok \in Outcomes : get_user_conversations_select(p, ok)

SpecRepeat == Init /\ [][NextRepeat]_vars

\* the tokens of the user ids are in any order
InitRing ==
    /\ messages_by_conversation = {}
    /\ user_conversations = {}
    /\ now = 0
    /\ issued = {}
    /\ writes = 0
    /\ ring \in Rings
    /\ pc = [p \in Procs |-> "idle"]
    /\ call = [p \in Procs |-> NoCall]

\* the Create-message requests and the pairs of users of the runs that look
\* for the conversation of two users
ConvArgs ==
    {Args(1, "U1", TextHi, Some(<<"U1", "U2">>)),
     Args(1, "U2", TextLong, None),
     Args(2, "U3", TextHi, Some(<<"U2", "U1", "U3">>))}
FindArgs == {<<"U1", "U2">>, <<"U1", "U1">>}

\* the log holds the message of Create-message request a
Sent(a) ==
    \E m \in messages_by_conversation :
        /\ m.conversation_id = a.conversation_id
        /\ m.sender_id = a.sender_id
        /\ m.message_text = a.message_text

\* worker p has returned from a call of create_or_get_conversation
Returned(p) ==
    call[p].kind = "create_or_get_conversation" /\ pc[p] = "done"

\* worker w1 appends, each request once, and then receives a request for the
\* conversation of two users; once it has returned, worker w2 receives the
\* same request
NextConv ==
    \/ Tick
    \/ \E a \in ConvArgs :
          /\ ~Sent(a)
          /\ create_message("w1", a.conversation_id, a.sender_id,
                            a.message_text, a.participant_ids)
    \/ \E ok \in Outcomes : insert_message("w1", ok)
    \/ \E ok \in Outcomes : insert_summary("w1", ok)
    \/ call["w1"].kind = "create_message" /\ respond("w1")
    \/ \E a \in FindArgs, id \in NewConvIds, ok \in Outcomes :
          create_or_get_conversation("w1", a[1], a[2], id, ok)
    \/ \E id \in NewConvIds, ok \in Outcomes :
          /\ Returned("w1")
          /\ create_or_get_conversation("w2", call["w1"].user_id,
                                        call["w1"].other_user_id, id, ok)
    \/ \E p \in Procs, id \in NewConvIds, ok \in Outcomes :
          create_or_get_lookup(p, id, ok)
    \/ \E p \in Procs, ok \in Outcomes : create_or_get_insert(p, ok)

SpecConv == InitRing /\ [][NextConv]_vars

\* worker w1 appends, request after request, and every statement may raise;
\* a request for one conversation arrives at worker w2 at any moment
NextGet ==
    \/ Tick
    \/ \E a \in ListedArgs :
          create_message("w1", a.conversation_id, a.sender_id, a.message_text,
                         a.participant_ids)
    \/ \E ok \in BOOLEAN : insert_message("w1", ok)
    \/ \E ok \in BOOLEAN : insert_summary("w1", ok)
    \/ \E c \in ConvIds, u \in Users, ok \in BOOLEAN :
          get_conversation("w2", c, u, ok)

SpecGet == Init /\ [][NextGet]_vars

\* the Create-message requests and the pairs of users of the runs in which
\* every call writes
WriteArgs ==
    {Args(1, "U1", TextHi, Some(<<"U1", "U2">>)),
     Args(1, "U2", TextLong, None)}
WritePairs == {<<"U1", "U2">>}

\* worker w1 appends, request after request, while a request for the
\* conversation of two users arrives at worker w2 at any moment
NextWrite ==
    \/ Tick
    \/ \E a \in WriteArgs :
          create_message("w1", a.conversation_id, a.sender_id, a.message_text,
                         a.participant_ids)
    \/ \E ok \in Outcomes : insert_message("w1", ok)
    \/ \E ok \in Outcomes : insert_summary("w1", ok)
    \/ \E a \in WritePairs, id \in NewConvIds, ok \in Outcomes :
          create_or_get_conversation("w2", a[1], a[2], id, ok)
    \/ \E id \in NewConvIds, ok \in Outcomes : create_or_get_lookup("w2", id, ok)
    \/ \E ok \in Outcomes : create_or_get_insert("w2", ok)

SpecWrite == Init /\ [][NextWrite]_vars

\* the pairs of users of the runs in which both workers look for conversations
PairArgs == {<<"U1", "U2">>, <<"U2", "U1">>, <<"U1", "U1">>}

\* both workers receive requests for the conversation of two users, one
\* after the other and at any moment, and every statement may raise
NextPair ==
    \/ Tick
    \/ \E p \in Procs, a \in PairArgs, id \in NewConvIds, ok \in BOOLEAN :
          create_or_get_conversation(p, a[1], a[2], id, ok)
    \/ \E p \in Procs, id \in NewConvIds, ok \in BOOLEAN :
          create_or_get_lookup(p, id, ok)
    \/ \E p \in Procs, ok \in BOOLEAN : create_or_get_insert(p, ok)
    \/ \E p \in Procs : respond(p)

SpecPair == Init /\ [][NextPair]_vars

\* worker w1 receives Create-message requests, each until its message is
\* stored, and requests for the conversation of two users, one after the
\* other, and every statement may raise
NextBoth ==
    \/ Tick
    \/ \E a \in WriteArgs :
          /\ ~Sent(a)
          /\ create_message("w1", a.conversation_id, a.sender_id,
                            a.message_text, a.participant_ids)
    \/ \E ok \in BOOLEAN : insert_message("w1", ok)
    \/ \E ok \in BOOLEAN : insert_summary("w1", ok)
    \/ respond("w1")
    \/ \E a \in WritePairs, id \in NewConvIds, ok \in BOOLEAN :
          create_or_get_conversation("w1", a[1], a[2], id, ok)
    \/ \E id \in NewConvIds, ok \in BOOLEAN : create_or_get_lookup("w1", id, ok)
    \/ \E ok \in BOOLEAN : create_or_get_insert("w1", ok)

SpecBoth == Init /\ [][NextBoth]_vars

\* the Create-message requests of the runs in which a later send repairs the
\* index: either user sends to the conversation of the two
RepairArgs ==
    {Args(1, "U1", TextHi, Some(<<"U1", "U2">>)),
     Args(1, "U2", TextLong, Some(<<"U2", "U1">>))}

\* worker w1 receives the Create-message requests, each until its message is
\* stored, and every statement may raise; a listing request arrives at worker
\* w2 at any moment
NextRepair ==
    \/ Tick
    \/ \E a \in RepairArgs :
          /\ ~Sent(a)
          /\ create_message("w1", a.conversation_id, a.sender_id,
                            a.message_text, a.participant_ids)
    \/ \E ok \in BOOLEAN : insert_message("w1", ok)
    \/ \E ok \in BOOLEAN : insert_summary("w1", ok)
    \/ \E c \in ListedConvs, page \in Pages, limit \in Limits, ok \in Outcomes :
          get_conversation_messages("w2", c, page, limit, ok)
    \/ \E ok \in Outcomes : get_conversation_messages_select("w2", ok)
    \/ \E u \in ListedUsers, page \in Pages, limit \in Limits, ok \in Outcomes :
          get_user_conversations("w2", u, page, limit, ok)
    \/ \E ok \in Outcomes : get_user_conversations_select("w2", ok)

SpecRepair == Init /\ [][NextRepair]_vars

\* both workers receive Create-message requests and answer them, and every
\* statement may raise
NextSend ==
    \/ Tick
    \/ \E p \in Procs, a \in WriteArgs :
          create_message(p, a.conversation_id, a.sender_id, a.message_text,
                         a.participant_ids)
    \/ \E p \in Procs, ok \in BOOLEAN : insert_message(p, ok)
    \/ \E p \in Procs, ok \in BOOLEAN : insert_summary(p, ok)
    \/ \E p \in Procs : send_message(p)
    \/ \E p \in Procs : respond(p)

SpecSend == Init /\ [][NextSend]_vars

\* the requests of the runs that look conversations up after Create-message
\* and FindOrCreate have written them: a request with an empty list, one of a
\* sender who is not in its list, and the pairs of two users and of one
OwnerArgs ==
    {Args(1, "U1", TextLong, Some(<<>>)),
     Args(1, "U3", TextHi, Some(<<"U1", "U2">>))}
OwnerPairs == {<<"U1", "U2">>, <<"U1", "U1">>}
OwnerConvs == {1, 3}

\* worker w1 receives Create-message requests, each once, and requests for
\* the conversation of two users, one after the other; a request for one
\* conversation arrives at worker w2 at any moment
NextOwner ==
    \/ Tick
    \/ \E a \in OwnerArgs :
          /\ ~Sent(a)
          /\ create_message("w1", a.conversation_id, a.sender_id,
                            a.message_text, a.participant_ids)
    \/ \E ok \in Outcomes : insert_message("w1", ok)
    \/ \E ok \in Outcomes : insert_summary("w1", ok)
    \/ respond("w1")
    \/ \E a \in OwnerPairs, id \in NewConvIds, ok \in Outcomes :
          create_or_get_conversation("w1", a[1], a[2], id, ok)
    \/ \E id \in NewConvIds, ok \in Outcomes : create_or_get_lookup("w1", id, ok)
    \/ \E ok \in Outcomes : create_or_get_insert("w1", ok)
    \/ \E c \in OwnerConvs, u \in Users, ok \in Outcomes :
          get_conversation("w2", c, u, ok)

SpecOwner == Init /\ [][NextOwner]_vars

\* the page and the limit of the listing requests of the runs that read
ReadPages == {1}
ReadLimits == {DefaultLimit}

\* worker w1 appends, request after request, while worker w2 receives the
\* requests that read, one after the other: the three listings, the lookup
\* of one conversation and the request for the conversation of two users;
\* every statement of w2 that reads may raise
NextRead ==
    \/ Tick
    \/ \E a \in RepeatArgs :
          create_message("w1", a.conversation_id, a.sender_id, a.message_text,
                         a.participant_ids)
    \/ \E ok \in Outcomes : insert_message("w1", ok)
    \/ \E ok \in Outcomes : insert_summary("w1", ok)
    \/ \E c \in ListedConvs, page \in ReadPages, limit \in ReadLimits,
          ok \in BOOLEAN :
          get_conversation_messages("w2", c, page, limit, ok)
    \/ \E ok \in BOOLEAN : get_conversation_messages_select("w2", ok)
    \/ \E c \in ListedConvs, T \in BeforeTimes, page \in ReadPages,
          limit \in ReadLimits, ok \in BOOLEAN :
          get_messages_before_timestamp("w2", c, T, page, limit, ok)
    \/ \E ok \in BOOLEAN : get_messages_before_timestamp_select("w2", ok)
    \/ \E u \in RepeatUsers, page \in ReadPages, limit \in ReadLimits,
          ok \in BOOLEAN :
          get_user_conversations("w2", u, page, limit, ok)
    \/ \E ok \in BOOLEAN : get_user_conversations_select("w2", ok)
    \/ \E c \in ListedConvs, u \in RepeatUsers, ok \in BOOLEAN :
          get_conversation("w2", c, u, ok)
    \/ \E a \in WritePairs, id \in NewConvIds, ok \in BOOLEAN :
          create_or_get_conversation("w2", a[1], a[2], id, ok)
    \/ \E id \in NewConvIds, ok \in BOOLEAN : create_or_get_lookup("w2", id, ok)
    \/ \E ok \in Outcomes : create_or_get_insert("w2", ok)
    \/ respond("w2")

SpecRead == Init /\ [][NextRead]_vars

(* ======================= properties of Append ========================= *)
\* worker p took this step, inside a call of create_message
AppendStep(p) ==
    /\ call[p].kind = "create_message"
    /\ pc[p] \in {"insert_message", "insert_summary"}
    /\ pc'[p] # pc[p] \/ call'[p] # call[p]

\* the number of summary statements of the call that the store applied so far
SummariesWritten(p) ==
    IF pc[p] = "failed" THEN call[p].n - 2 ELSE call[p].n - 1

\* the message-log row of the call has been written
MessageWritten(p) ==
    /\ call[p].kind = "create_message"
    /\ \/ pc[p] \in {"insert_summary", "done"}
       \/ pc[p] = "failed" /\ call[p].n >= 2

\* C3: the message-log row of a call and every summary row the call has
\* written carry one timestamp (last_activity = message_timestamp), whatever
\* other calls and the clock do in between.
SharedTimestamp ==
    \A p \in Procs : MessageWritten(p) =>
        \E m \in messages_by_conversation :
            /\ m.message_id = call[p].message_id
            /\ \A j \in 1..SummariesWritten(p) :
                \E r \in user_conversations :
                    /\ r.user_id = Participants(call[p])[j]
                    /\ r.conversation_id = m.conversation_id
                    /\ r.last_activity = m.message_timestamp

\* a call with two participants or more has completed after the clock moved on
SharedTimestampWitness ==
    \E p \in Procs :
        /\ call[p].kind = "create_message" /\ pc[p] = "done"
        /\ Len(Participants(call[p])) >= 2
        /\ now > call[p].message_timestamp

\* the request names no participant: the list is absent or empty
NoParticipantsGiven(c) ==
    c.participant_ids = None \/ c.participant_ids = Some(<<>>)

\* C4: a call without participantIds (absent or empty) creates or changes
\* summary rows of the sender only, and has written the sender's row when it
\* completes.
DefaultParticipants ==
    [][\A p \in Procs :
        (AppendStep(p) /\ NoParticipantsGiven(call[p])) =>
            /\ \A r \in (user_conversations' \ user_conversations)
                        \cup (user_conversations \ user_conversations') :
                    r.user_id = call[p].sender_id
            /\ pc'[p] = "done" =>
                 \E r \in user_conversations' :
                    /\ r.user_id = call[p].sender_id
                    /\ r.conversation_id = call[p].conversation_id
                    /\ r.last_activity = call[p].message_timestamp]_vars

\* a call with an empty list has completed while another user has no row of
\* that conversation, and the other worker has written rows of other users
DefaultParticipantsWitness ==
    \E p \in Procs :
        /\ call[p].kind = "create_message" /\ pc[p] = "done"
        /\ call[p].participant_ids = Some(<<>>)
        /\ \E u \in Users \ {call[p].sender_id} :
            \A r \in user_conversations :
                r.user_id = u => r.conversation_id # call[p].conversation_id
        /\ \E r \in user_conversations : r.user_id # call[p].sender_id

\* preview is text cut to its first PreviewLen units
IsTruncation(preview, text) ==
    IF Len(text) > PreviewLen
    THEN /\ Len(preview) = PreviewLen
         /\ \A i \in 1..PreviewLen : preview[i] = text[i]
    ELSE preview = text

\* C5: every summary row an Append writes has the first 100 units of the text
\* as its preview (the whole text when it is no longer), and the message-log
\* row it writes has the full text.
Truncation ==
    [][\A p \in Procs : AppendStep(p) =>
        /\ \A r \in user_conversations' \ user_conversations :
              IsTruncation(r.last_message_preview, call[p].message_text)
        /\ \A m \in messages_by_conversation' \ messages_by_conversation :
              /\ m.message_id = call[p].message_id
              /\ m.message_text = call[p].message_text]_vars

\* a call with a text of more than 100 units has written its rows
TruncationWitness ==
    \E p \in Procs :
        /\ call[p].kind = "create_message" /\ pc[p] = "done"
        /\ Len(call[p].message_text) > PreviewLen
        /\ \E m \in messages_by_conversation :
              m.message_id = call[p].message_id /\ Len(m.message_text) > PreviewLen
        /\ \E r \in user_conversations :
              /\ r.user_id = call[p].sender_id
              /\ r.conversation_id = call[p].conversation_id
              /\ Len(r.last_message_preview) = PreviewLen

\* what a failed call of create_message leaves in the store
FailedAppendLeaves(p) ==
    LET c == call[p]
    IN  IF c.n = 1
        THEN \A m \in messages_by_conversation : m.message_id # c.message_id
        ELSE /\ \E m \in messages_by_conversation :
                    /\ m.message_id = c.message_id
                    /\ m.conversation_id = c.conversation_id
                    /\ m.message_text = c.message_text
             /\ \A j \in 1..(c.n - 2) :
                  \E r \in user_conversations :
                    /\ r.user_id = Participants(c)[j]
                    /\ r.conversation_id = c.conversation_id
                    /\ r.last_activity = c.message_timestamp

\* C6: a statement of an Append that the store does not apply ends the call
\* as failed and changes nothing (no rollback); a failed call issues no further
\* statement (no retry, no later summary write); no call issues more than one
\* statement per row; after a failure of the message write the message is not
\* in the log, after a failure of summary write k the message and the k-1
\* summary rows written before are.
PartialFailure ==
    /\ [](\A p \in Procs : call[p].kind = "create_message" =>
            /\ call[p].n <= 1 + Len(Participants(call[p]))
            /\ pc[p] = "failed" => FailedAppendLeaves(p))
    /\ [][\A p \in Procs :
            /\ AppendStep(p) =>
                /\ call'[p].n = call[p].n + 1
                /\ IF writes' = writes
                   THEN /\ pc'[p] = "failed"
                        /\ messages_by_conversation' = messages_by_conversation
                        /\ user_conversations' = user_conversations
                   ELSE pc'[p] # "failed"
            /\ (call[p].kind = "create_message" /\ pc[p] = "failed"
                /\ call'[p] # call[p]) =>
                    (call'[p].kind # "create_message" \/ call'[p].n = 0)]_vars

\* a call has failed at its second summary write: the message and the first
\* summary row are stored, the second participant has no row
PartialFailureWitness ==
    \E p \in Procs :
        /\ call[p].kind = "create_message" /\ pc[p] = "failed"
        /\ call[p].n = 3
        /\ \E m \in messages_by_conversation : m.message_id = call[p].message_id
        /\ \E r \in user_conversations : r.user_id = Participants(call[p])[1]
        /\ \A r \in user_conversations : r.user_id # Participants(call[p])[2]

(* ====================== properties of the listings ==================== *)
ListingKinds ==
    {"get_conversation_messages", "get_messages_before_timestamp",
     "get_user_conversations"}

\* worker p has returned from a listing of this kind
Listed(p, kind) == pc[p] = "done" /\ call[p].kind = kind

Items(p) == {call[p].items[i] : i \in 1..Len(call[p].items)}

\* worker w has completed the only Append there has been: the store was empty
\* before it and nothing else has written
OnlyAppend(w) ==
    /\ call[w].kind = "create_message" /\ pc[w] = "done"
    /\ issued = {call[w].message_id}

\* C1: after one successful Append(X, sender, t, P) to the empty store, with
\* U2 in P, t of at most 100 units and no other write, ListByConversation(X)
\* with page 1 and limit 20 returns exactly one item, with text t and that
\* sender, and ListForUser(p) has an entry of X with preview t for every p in P.
FanOutVisibility ==
    \A w \in Procs, q \in Procs :
        LET a == call[w]
        IN  ( /\ OnlyAppend(w)
              /\ a.participant_ids # None
              /\ "U2" \in ToSet(a.participant_ids[1])
              /\ Len(a.message_text) <= PreviewLen
              /\ pc[q] = "done" /\ call[q].kind \in ListingKinds
              /\ call[q].v1 = writes ) =>
            /\ ( /\ call[q].kind = "get_conversation_messages"
                 /\ call[q].conversation_id = a.conversation_id
                 /\ call[q].page = 1 /\ call[q].limit = DefaultLimit ) =>
                    /\ Len(call[q].items) = 1
                    /\ call[q].items[1].message_text = a.message_text
                    /\ call[q].items[1].sender_id = a.sender_id
            /\ ( /\ call[q].kind = "get_user_conversations"
                 /\ call[q].user_id \in ToSet(a.participant_ids[1]) ) =>
                    \E r \in Items(q) :
                        /\ r.conversation_id = a.conversation_id
                        /\ r.last_message_preview = a.message_text

\* U1 has sent "hi" to [U1, U2] and then U2 has listed their conversations
FanOutVisibilityWitness ==
    \E w \in Procs, q \in Procs :
        /\ OnlyAppend(w)
        /\ call[w].sender_id = "U1" /\ call[w].message_text = TextHi
        /\ call[w].participant_ids = Some(<<"U1", "U2">>)
        /\ Listed(q, "get_user_conversations")
        /\ call[q].user_id = "U2" /\ call[q].v1 = writes
        /\ Len(call[q].items) = 1

\* C2: the list ListByConversation returns is sorted by message_timestamp
\* descending, messages of one timestamp by message_id ascending, and holds no
\* message twice.
Ordering ==
    \A q \in Procs : Listed(q, "get_conversation_messages") =>
        \A i \in 1..Len(call[q].items), j \in 1..Len(call[q].items) :
            i < j =>
                LET r == call[q].items[i]
                    t == call[q].items[j]
                IN  /\ r # t
                    /\ \/ r.message_timestamp > t.message_timestamp
                       \/ /\ r.message_timestamp = t.message_timestamp
                          /\ r.message_id < t.message_id

\* a listing has returned two messages of different timestamps, the later
\* Append having drawn the smaller message_id
OrderingWitness ==
    \E q \in Procs :
        /\ Listed(q, "get_conversation_messages")
        /\ Len(call[q].items) >= 2
        /\ call[q].items[1].message_timestamp > call[q].items[2].message_timestamp
        /\ call[q].items[1].message_id < call[q].items[2].message_id

\* C7 as stated: the total of a listing is at least the number of items of its
\* page, also when other calls write meanwhile.
TotalBoundsPage ==
    \A q \in Procs :
        (pc[q] = "done" /\ call[q].kind \in ListingKinds) =>
            call[q].total >= Len(call[q].items)

\* C7 amended: the total of a listing is at least the number of items of its
\* page when the store applied no write between the count query and the select
\* query of the call.
TotalBoundsQuietPage ==
    \A q \in Procs :
        ( /\ pc[q] = "done" /\ call[q].kind \in ListingKinds
          /\ call[q].v0 = call[q].v1 ) =>
            call[q].total >= Len(call[q].items)

\* a listing cut by its limit has returned fewer items than its total
TotalBoundsQuietPageWitness ==
    \E q \in Procs :
        /\ pc[q] = "done" /\ call[q].kind \in ListingKinds
        /\ call[q].v0 = call[q].v1
        /\ Len(call[q].items) >= 1
        /\ call[q].total > Len(call[q].items)

\* the rows the filter of the listing of worker q matches now
Matching(q) ==
    LET c == call[q]
    IN  IF c.kind = "get_user_conversations"
        THEN {r \in user_conversations : r.user_id = c.user_id}
        ELSE {r \in messages_by_conversation :
                /\ r.conversation_id = c.conversation_id
                /\ c.kind = "get_messages_before_timestamp" =>
                        r.message_timestamp < c.before_timestamp}

\* C8: when no write interleaves with a listing, its total is the number of
\* stored rows its filter matches, whatever the limit.
TotalIsCount ==
    \A q \in Procs :
        ( /\ pc[q] \in {"select", "done"} /\ call[q].kind \in ListingKinds
          /\ call[q].v0 = writes ) =>
            call[q].total = Cardinality(Matching(q))

\* ListBefore has returned its total while the conversation has rows before
\* the timestamp and a row that is not before it
TotalIsCountWitness ==
    \E q \in Procs :
        /\ Listed(q, "get_messages_before_timestamp")
        /\ call[q].v0 = writes
        /\ call[q].total >= 1
        /\ \E r \in messages_by_conversation :
            /\ r.conversation_id = call[q].conversation_id
            /\ r.message_timestamp >= call[q].before_timestamp

\* C9 as stated: every item of ListBefore(c, T, page, limit) is before T and
\* is an item of ListByConversation(c, page, limit) in the same store state.
ListBeforeWithinPage ==
    \A q \in Procs :
        (Listed(q, "get_messages_before_timestamp") /\ call[q].v1 = writes) =>
            \A r \in Items(q) :
                /\ r.message_timestamp < call[q].before_timestamp
                /\ \E i \in 1..Len(SelectConversation(call[q].conversation_id,
                                                      call[q].limit)) :
                     SelectConversation(call[q].conversation_id,
                                        call[q].limit)[i] = r

\* C9 amended: every item of ListBefore(c, T, page, limit) is before T and is
\* an item of ListByConversation(c, page, L) for every L that is at least the
\* number of rows of the conversation.
ListBeforeWithinLog ==
    \A q \in Procs :
        (Listed(q, "get_messages_before_timestamp") /\ call[q].v1 = writes) =>
            \A r \in Items(q) :
                /\ r.message_timestamp < call[q].before_timestamp
                /\ \A L \in Limits :
                     L >= Cardinality({m \in messages_by_conversation :
                            m.conversation_id = call[q].conversation_id}) =>
                        \E i \in 1..Len(SelectConversation(
                                            call[q].conversation_id, L)) :
                            SelectConversation(call[q].conversation_id, L)[i] = r

\* ListBefore has returned an older message that the first page of
\* ListByConversation with the same limit does not hold
ListBeforeWithinLogWitness ==
    \E q \in Procs :
        /\ Listed(q, "get_messages_before_timestamp") /\ call[q].v1 = writes
        /\ Len(call[q].items) >= 1
        /\ \E m \in messages_by_conversation :
            /\ m.conversation_id = call[q].conversation_id
            /\ m.message_timestamp >= call[q].before_timestamp

\* C10: in a conversation that is not empty, ListBefore with the timestamp of
\* the oldest message returns no item and total 0, for every limit.
CursorExhaustion ==
    \A q \in Procs :
        LET rows == {m \in messages_by_conversation :
                        m.conversation_id = call[q].conversation_id}
        IN  ( /\ Listed(q, "get_messages_before_timestamp")
              /\ call[q].v0 = writes
              /\ rows # {}
              /\ \A m \in rows :
                    m.message_timestamp >= call[q].before_timestamp
              /\ \E m \in rows :
                    m.message_timestamp = call[q].before_timestamp ) =>
            /\ call[q].items = <<>>
            /\ call[q].total = 0

\* ListBefore has been called with the timestamp of the oldest message
CursorExhaustionWitness ==
    \E q \in Procs :
        /\ Listed(q, "get_messages_before_timestamp")
        /\ call[q].v0 = writes
        /\ \E m \in messages_by_conversation :
            /\ m.conversation_id = call[q].conversation_id
            /\ m.message_timestamp = call[q].before_timestamp
        /\ \A m \in messages_by_conversation :
            m.conversation_id = call[q].conversation_id =>
                m.message_timestamp >= call[q].before_timestamp

(* ===================== properties of repeated reads =================== *)
\* the listing calls of workers p and q have returned and had the same
\* arguments, the page left aside
SameListing(p, q) ==
    /\ p # q
    /\ call[p].kind \in ListingKinds /\ pc[p] = "done"
    /\ call[q].kind = call[p].kind /\ pc[q] = "done"
    /\ call[q].limit = call[p].limit
    /\ call[p].kind = "get_user_conversations" =>
            call[q].user_id = call[p].user_id
    /\ call[p].kind # "get_user_conversations" =>
            call[q].conversation_id = call[p].conversation_id
    /\ call[p].kind = "get_messages_before_timestamp" =>
            call[q].before_timestamp = call[p].before_timestamp

\* the store applied no write from the first query of either call to the last
NoWriteAmong(p, q) ==
    /\ call[p].v0 = call[p].v1
    /\ call[q].v0 = call[q].v1
    /\ call[p].v0 = call[q].v0

\* C11: two calls of ListByConversation, ListBefore or ListForUser with
\* identical arguments, with no write of the store between or during them,
\* return the same items in the same order and the same total, whatever the
\* clock did meanwhile.
IdempotentRead ==
    \A p \in Procs, q \in Procs :
        ( /\ SameListing(p, q)
          /\ call[p].page = call[q].page
          /\ NoWriteAmong(p, q) ) =>
            /\ call[p].items = call[q].items
            /\ call[p].total = call[q].total

\* ListBefore has returned a message and, after the clock moved on, has
\* returned for the same request again
IdempotentReadWitness ==
    \E p \in Procs, q \in Procs :
        /\ SameListing(p, q)
        /\ call[p].page = call[q].page
        /\ NoWriteAmong(p, q)
        /\ call[p].kind = "get_messages_before_timestamp"
        /\ Len(call[p].items) >= 1
        /\ \E m \in messages_by_conversation :
                m.message_timestamp >= call[p].before_timestamp

(* =================== properties of FindOrCreate ======================= *)
\* worker q has returned from the call that repeats the call of worker p: the
\* same two users in the same order, started after p returned, and the store
\* applied no write between the return of p and the first statement of q
Repeats(q, p) ==
    /\ p = "w1" /\ q = "w2"
    /\ Returned(p) /\ Returned(q)
    /\ call[q].user_id = call[p].user_id
    /\ call[q].other_user_id = call[p].other_user_id
    /\ call[q].v0 = call[p].v1

\* C12: FindOrCreateDirectConversation(A, B) called again with no state change
\* in between returns the conversation id of the first call with created =
\* false and writes nothing, for all users A and B.
FindOrCreateIdempotent ==
    \A p \in Procs, q \in Procs :
        Repeats(q, p) =>
            /\ call[q].conversation_id = call[p].conversation_id
            /\ call[q].created = FALSE
            /\ call[q].v1 = call[q].v0

\* the same for two different users
FindOrCreateIdempotentOfTwo ==
    \A p \in Procs, q \in Procs :
        (Repeats(q, p) /\ call[p].user_id # call[p].other_user_id) =>
            /\ call[q].conversation_id = call[p].conversation_id
            /\ call[q].created = FALSE
            /\ call[q].v1 = call[q].v0

\* the summary rows of user_id whose participant set is exactly the two users
DirectRows(user_id, other_user_id) ==
    {r \in UserRows(user_id) :
        r.participant_ids = {user_id, other_user_id}}

\* C13: when userId has summary rows of conversations whose participant set
\* is exactly {userId, otherUserId}, FindOrCreateDirectConversation returns,
\* with created = false, the conversation of the first such row in the scan
\* order of userId (last_activity descending); and the conversation it returns
\* with created = false has exactly those two users as its participant set.
FirstMatchWins ==
    \A p \in Procs :
        (Returned(p) /\ call[p].v1 = call[p].v0 /\ writes = call[p].v0) =>
            LET rows == DirectRows(call[p].user_id, call[p].other_user_id)
            IN  /\ rows # {} =>
                    /\ call[p].created = FALSE
                    /\ call[p].conversation_id =
                            ScanSummaries(rows)[1].conversation_id
                /\ call[p].created = FALSE =>
                    \E r \in rows :
                        r.conversation_id = call[p].conversation_id

\* the same for two different users whose conversations have one participant
\* set in all their rows
FirstMatchWinsOfTwo ==
    \A p \in Procs :
        ( /\ Returned(p) /\ call[p].v1 = call[p].v0 /\ writes = call[p].v0
          /\ call[p].user_id # call[p].other_user_id
          /\ \A r \in user_conversations, t \in user_conversations :
                r.conversation_id = t.conversation_id =>
                    r.participant_ids = t.participant_ids ) =>
            LET rows == DirectRows(call[p].user_id, call[p].other_user_id)
            IN  /\ rows # {} =>
                    /\ call[p].created = FALSE
                    /\ call[p].conversation_id =
                            ScanSummaries(rows)[1].conversation_id
                /\ call[p].created = FALSE =>
                    \E r \in rows :
                        r.conversation_id = call[p].conversation_id

\* a conversation qualifies for the two users of the call of worker p: user_id
\* has a row of it and its representative row passes the test of the loop;
\* the conversation the call has created itself is left aside
Qualifies(p) ==
    \E r \in UserRows(call[p].user_id) :
        /\ call[p].created => r.conversation_id # call[p].conversation_id
        /\ IsDirect(SelectConversationRow(r.conversation_id)[1].participant_ids,
                    call[p].user_id, call[p].other_user_id)

\* C14: a call of FindOrCreate that finds no qualifying conversation returns
\* created = true with a conversation id no row of the store held before; the
\* summary rows of that id are the rows the call has written so far, one for
\* each of the two users when it returns, all with the timestamp of the call,
\* participant_ids = {userId, otherUserId} and the preview "New conversation";
\* the message log holds no row of that id.
CreationPath ==
    \A p \in Procs :
        call[p].kind = "create_or_get_conversation" =>
            LET c == call[p]
            IN  /\ c.created =>
                    /\ {r \in user_conversations :
                            r.conversation_id = c.conversation_id} =
                        {[user_id |-> <<c.user_id, c.other_user_id>>[j],
                          last_activity |-> c.timestamp,
                          conversation_id |-> c.conversation_id,
                          participant_ids |-> {c.user_id, c.other_user_id},
                          last_message_preview |-> <<"New conversation">>] :
                            j \in 1..c.n}
                    /\ \A m \in messages_by_conversation :
                            m.conversation_id # c.conversation_id
                    /\ pc[p] = "done" => c.n = 2
                /\ ( /\ pc[p] = "done"
                     /\ c.v1 = c.v0 + c.n /\ writes = c.v1 ) =>
                        (c.created <=> ~Qualifies(p))

\* a call for two different users has examined a conversation of the first
\* user that does not qualify, and has returned a new conversation after the
\* clock moved on
CreationPathWitness ==
    \E p \in Procs :
        /\ Returned(p) /\ call[p].created
        /\ call[p].user_id # call[p].other_user_id
        /\ call[p].v1 = call[p].v0 + 2 /\ writes = call[p].v1
        /\ now > call[p].timestamp
        /\ \E r \in UserRows(call[p].user_id) :
                r.conversation_id # call[p].conversation_id

(* ================== properties of GetByConversationId ================= *)
\* worker q took the step of get_conversation
GetStep(q) ==
    /\ pc[q] = "idle"
    /\ call'[q].kind = "get_conversation"

\* C15: GetByConversationId for a conversation without summary rows, also one
\* that has rows in the message log, returns no entry and is answered with
\* status 500, not 404; the call leaves both tables as they are.
NotFoundIsServerError ==
    /\ [](\A q \in Procs :
            ( /\ call[q].kind = "get_conversation"
              /\ call[q].v0 = writes
              /\ \A r \in user_conversations :
                    r.conversation_id # call[q].conversation_id ) =>
                /\ pc[q] = "failed"
                /\ call[q].response = <<>>
                /\ call[q].status = Http500)
    /\ [][\A q \in Procs : GetStep(q) =>
            /\ messages_by_conversation' = messages_by_conversation
            /\ user_conversations' = user_conversations]_vars

\* the conversation asked for has a message in the log, the summary write of
\* that Append has failed, and the store has executed the lookup
NotFoundIsServerErrorWitness ==
    \E q \in Procs :
        /\ call[q].kind = "get_conversation" /\ call[q].v0 = writes
        /\ pc[q] = "failed" /\ call[q].status = Http500
        /\ \E m \in messages_by_conversation :
                m.conversation_id = call[q].conversation_id
        /\ \A r \in user_conversations :
                r.conversation_id # call[q].conversation_id
        /\ \E r \in user_conversations : TRUE

(* ===================== properties of ListForUser ====================== *)
\* C16: when no write follows its select query, ListForUser has returned
\* min(limit, number of rows of the user) summary rows, all of the requested
\* user, in descending order of last_activity, and no row it left out has a
\* greater last_activity than a row it returned.
ListForUserPage ==
    \A q \in Procs :
        (Listed(q, "get_user_conversations") /\ call[q].v1 = writes) =>
            LET rows == {r \in user_conversations :
                            r.user_id = call[q].user_id}
                items == call[q].items
                n == Cardinality(rows)
            IN  /\ Len(items) = IF call[q].limit < n THEN call[q].limit ELSE n
                /\ \A i \in 1..Len(items) : items[i] \in rows
                /\ \A i \in 1..Len(items), j \in 1..Len(items) :
                        i < j =>
                            /\ items[i] # items[j]
                            /\ items[i].last_activity >= items[j].last_activity
                /\ \A r \in rows \ Items(q), i \in 1..Len(items) :
                        items[i].last_activity >= r.last_activity

\* the limit has cut the list of a user who has rows of two timestamps, while
\* another user has rows too
ListForUserPageWitness ==
    \E q \in Procs :
        /\ Listed(q, "get_user_conversations") /\ call[q].v1 = writes
        /\ Len(call[q].items) = call[q].limit
        /\ \E r \in user_conversations :
                /\ r.user_id = call[q].user_id
                /\ r.last_activity < call[q].items[1].last_activity
        /\ \E r \in user_conversations : r.user_id # call[q].user_id

(* ========================= properties of page ========================= *)
\* row r comes before row t in the scan the listing of worker q selects from
ScannedBefore(q, r, t) ==
    IF call[q].kind = "get_user_conversations"
    THEN SummaryBefore(r, t)
    ELSE MessageBefore(r, t)

\* C17: two calls of a listing that differ in page only, with no write of the
\* store between or during them, return the same items and the same total; a
\* page below 1 is taken as page 1 and the call is served; and the items are
\* the first limit rows of the ordered scan of the matching rows.
PageIsNoOffset ==
    /\ \A p \in Procs, q \in Procs :
            (SameListing(p, q) /\ NoWriteAmong(p, q)) =>
                /\ call[p].items = call[q].items
                /\ call[p].total = call[q].total
    /\ \A q \in Procs : call[q].kind \in ListingKinds => call[q].page >= 1
    /\ (Listing("w1", "get_user_conversations") /\ pc["w2"] = "idle") =>
            ENABLED get_user_conversations("w2", call["w1"].user_id, 0 - 1,
                                           call["w1"].limit, TRUE)
    /\ \A q \in Procs :
            ( /\ call[q].kind \in ListingKinds /\ pc[q] = "done"
              /\ call[q].v1 = writes ) =>
                /\ Len(call[q].items) =
                        IF call[q].limit < Cardinality(Matching(q))
                        THEN call[q].limit ELSE Cardinality(Matching(q))
                /\ Items(q) \subseteq Matching(q)
                /\ \A r \in Matching(q) \ Items(q), t \in Items(q) :
                        ScannedBefore(q, t, r)

\* ListForUser has returned one row of two for page 1 and for page 2
PageIsNoOffsetWitness ==
    \E p \in Procs, q \in Procs :
        /\ SameListing(p, q) /\ NoWriteAmong(p, q)
        /\ call[p].kind = "get_user_conversations"
        /\ call[p].page = 1 /\ call[q].page = 2
        /\ call[p].limit = 1
        /\ call[p].total >= 2
        /\ Len(call[q].items) = 1

(* ======================= properties of the store ====================== *)
\* C18: in every step of every run, each row of the message log stays in the
\* log with all its fields, so that no Append overwrites the row of another,
\* and each primary key (user_id, last_activity, conversation_id) of the
\* summary index stays in the index.
AppendOnly ==
    [][ /\ \A m \in messages_by_conversation :
              m \in messages_by_conversation'
        /\ \A r \in user_conversations :
              \E t \in user_conversations' :
                  /\ t.user_id = r.user_id
                  /\ t.last_activity = r.last_activity
                  /\ t.conversation_id = r.conversation_id ]_vars

\* the log holds two messages of one conversation and one timestamp, and the
\* index holds rows of an Append and of a new conversation
AppendOnlyWitness ==
    /\ \E m \in messages_by_conversation, k \in messages_by_conversation :
            /\ m # k
            /\ m.conversation_id = k.conversation_id
            /\ m.message_timestamp = k.message_timestamp
    /\ \E r \in user_conversations, t \in user_conversations :
            /\ r.last_message_preview = <<"New conversation">>
            /\ t.last_message_preview # <<"New conversation">>

\* worker p has returned from a successful Append
Appended(p) ==
    call[p].kind = "create_message" /\ pc[p] = "done"

ParticipantsOf(m) ==
    LET a == CHOOSE a \in ListedArgs :
                /\ a.conversation_id = m.conversation_id
                /\ a.sender_id = m.sender_id
                /\ a.message_text = m.message_text
    IN  ToSet(ResolveParticipants(a.participant_ids, a.sender_id))

\* the Append that wrote log row m has returned
Completed(m) ==
    \A w \in Procs :
        (call[w].kind = "create_message" /\ call[w].message_id = m.message_id)
            => pc[w] = "done"

\* C20: after two successful Appends to one conversation with different
\* timestamps, a user who is a participant of both has a summary row of that
\* conversation for each of the two timestamps, the older one still with the
\* preview and the participants of an Append of its own timestamp; a call of
\* ListForUser for that user with a limit of at least 2, run after the writes,
\* counts both rows in its total and, when the rows of the user fit into the
\* limit, returns both of them, two entries with one conversation_id.
StaleRowsAccumulate ==
    \A m1 \in messages_by_conversation, m2 \in messages_by_conversation :
        ( /\ m1.conversation_id = m2.conversation_id
          /\ m1.message_timestamp < m2.message_timestamp
          /\ Completed(m1) /\ Completed(m2) ) =>
            \A u \in ParticipantsOf(m1) \cap ParticipantsOf(m2) :
                LET mine == {r \in user_conversations :
                                /\ r.user_id = u
                                /\ r.conversation_id = m1.conversation_id}
                    older == {r \in mine :
                                r.last_activity = m1.message_timestamp}
                    newer == {r \in mine :
                                r.last_activity = m2.message_timestamp}
                    all == {r \in user_conversations : r.user_id = u}
                IN  /\ Cardinality(older) = 1 /\ Cardinality(newer) = 1
                    /\ \A r \in older :
                        \E m \in messages_by_conversation :
                            /\ m.conversation_id = r.conversation_id
                            /\ m.message_timestamp = r.last_activity
                            /\ IsTruncation(r.last_message_preview,
                                            m.message_text)
                            /\ r.participant_ids = ParticipantsOf(m)
                    /\ \A q \in Procs :
                        ( /\ Listed(q, "get_user_conversations")
                          /\ call[q].user_id = u
                          /\ call[q].limit >= 2
                          /\ call[q].v0 = writes ) =>
                            /\ call[q].total = Cardinality(all)
                            /\ call[q].total >= 2
                            /\ Cardinality(all) <= call[q].limit =>
                                    (older \cup newer) \subseteq Items(q)

\* U2 has listed their conversations after two Appends of U1 to conversation
\* 1 at different times, and the list holds that conversation twice
StaleRowsAccumulateWitness ==
    \E q \in Procs :
        /\ Listed(q, "get_user_conversations")
        /\ call[q].user_id = "U2" /\ call[q].v0 = writes
        /\ call[q].limit >= 2
        /\ call[q].total = 2
        /\ Len(call[q].items) = 2
        /\ call[q].items[1].conversation_id = call[q].items[2].conversation_id
        /\ call[q].items[1].last_activity > call[q].items[2].last_activity
(* ================== properties of the two tables ====================== *)
\* the summary row is one that a call of create_or_get_conversation writes
IsNewConversationRow(r) ==
    r.last_message_preview = <<"New conversation">>

\* the message of the log that summary row r refers to
LoggedMessages(r) ==
    {m \in messages_by_conversation :
        /\ m.conversation_id = r.conversation_id
        /\ m.message_timestamp = r.last_activity
        /\ Preview(m.message_text) = r.last_message_preview}

\* C21: in every reachable state, also in the middle of a call and after a
\* failed call, every summary row that is not a "New conversation" row of
\* FindOrCreate has a message-log row with its conversation_id, with
\* message_timestamp = last_activity and with its preview; a call writes no
\* summary row before its message-log row is stored.
LogBeforeSummary ==
    /\ \A r \in user_conversations :
            ~IsNewConversationRow(r) => LoggedMessages(r) # {}
    /\ \A p \in Procs :
            (call[p].kind = "create_message" /\ ~MessageWritten(p)) =>
                \A r \in user_conversations :
                    \A m \in LoggedMessages(r) :
                        m.message_id # call[p].message_id

\* an Append has failed after its first summary write, after the clock moved
\* on, and the store holds a row of FindOrCreate too
LogBeforeSummaryWitness ==
    \E p \in Procs :
        /\ call[p].kind = "create_message" /\ pc[p] = "failed"
        /\ call[p].n = 3
        /\ now > call[p].message_timestamp
        /\ \E r \in user_conversations : IsNewConversationRow(r)
        /\ \E r \in user_conversations :
                /\ ~IsNewConversationRow(r)
                /\ r.last_activity = call[p].message_timestamp

\* worker q has returned from a listing of this kind, and the store has
\* applied no write since the first statement of the listing
QuietListing(q, kind) ==
    Listed(q, kind) /\ call[q].v0 = writes

\* the users a Create-message request asks to write summary rows for
Requested(c) ==
    ToSet(ResolveParticipants(c.participant_ids, c.sender_id))

\* the index holds no row of this conversation for this user
Unlisted(user_id, conversation_id) ==
    \A r \in UserRows(user_id) : r.conversation_id # conversation_id

\* C22: while an Append to X has failed after its message-log write and a
\* participant u has no summary row of X, ListByConversation(X) returns
\* messages of X (the message of the failed call, when the limit suffices)
\* and ListForUser(u) has no entry of X; and after a successful Append to X
\* whose participants contain u, ListForUser(u) with a limit that holds all
\* rows of u has an entry of X.
RepairByLaterSend ==
    \A p \in Procs, q \in Procs, u \in Users :
        LET c == call[p]
            l == call[q]
        IN  /\ ( /\ c.kind = "create_message" /\ pc[p] = "failed"
                 /\ c.n >= 2
                 /\ u \in Requested(c)
                 /\ Unlisted(u, c.conversation_id) ) =>
                    /\ ( /\ QuietListing(q, "get_conversation_messages")
                         /\ l.conversation_id = c.conversation_id ) =>
                            /\ l.total >= 1 /\ l.items # <<>>
                            /\ \A m \in Items(q) :
                                    m.conversation_id = c.conversation_id
                            /\ l.limit >= l.total =>
                                    \E m \in Items(q) :
                                        m.message_id = c.message_id
                    /\ ( /\ QuietListing(q, "get_user_conversations")
                         /\ l.user_id = u ) =>
                            \A r \in Items(q) :
                                r.conversation_id # c.conversation_id
            /\ ( /\ c.kind = "create_message" /\ pc[p] = "done"
                 /\ u \in Requested(c)
                 /\ QuietListing(q, "get_user_conversations")
                 /\ l.user_id = u
                 /\ l.limit >= l.total ) =>
                    \E r \in Items(q) :
                        /\ r.conversation_id = c.conversation_id
                        /\ r.user_id = u

\* an Append of U2 to conversation 1 failed and left U2 without a row (the
\* log holds its message, the index has no row of U2 with its timestamp);
\* later U1 has sent to the conversation, and the listing of U2 that follows
\* has the entry of the conversation
RepairByLaterSendWitness ==
    \E p \in Procs, q \in Procs :
        /\ call[p].kind = "create_message" /\ pc[p] = "done"
        /\ call[p].sender_id = "U1"
        /\ \E m \in messages_by_conversation :
                /\ m.conversation_id = call[p].conversation_id
                /\ m.sender_id = "U2"
                /\ m.message_timestamp < call[p].message_timestamp
                /\ \A r \in UserRows("U2") :
                        r.last_activity # m.message_timestamp
        /\ QuietListing(q, "get_user_conversations")
        /\ call[q].user_id = "U2"
        /\ \E r \in Items(q) : r.conversation_id = call[p].conversation_id

(* ============ properties of concurrent calls of FindOrCreate ========== *)
\* the two users of the call of worker p
Pair(p) == {call[p].user_id, call[p].other_user_id}

\* the conversations that calls of FindOrCreate have created for these users
CreatedFor(pair) ==
    {r.conversation_id : r \in {r \in user_conversations :
                                    /\ IsNewConversationRow(r)
                                    /\ r.participant_ids = pair}}

\* C23: however concurrent calls of FindOrCreateDirectConversation for one
\* pair of two different users (in either argument order) interleave, at most
\* one conversation with exactly that pair as its participant set is ever
\* created, and the calls that have returned for the pair have returned one
\* conversation id.
NoDuplicateDirect ==
    \A p \in Procs, q \in Procs :
        ( /\ Returned(p) /\ Returned(q)
          /\ Pair(p) = Pair(q) /\ Cardinality(Pair(p)) = 2 ) =>
            /\ call[p].conversation_id = call[q].conversation_id
            /\ Cardinality(CreatedFor(Pair(p))) <= 1

\* worker q has returned from the call that follows the call of worker p with
\* the two users exchanged: its first statement ran after the last write of
\* p, and the store applied no write in between
Mirrors(q, p) ==
    /\ Returned(p) /\ Returned(q)
    /\ call[q].user_id = call[p].other_user_id
    /\ call[q].other_user_id = call[p].user_id
    /\ call[q].v0 = call[p].v1

\* C24: after FindOrCreateDirectConversation(A, B) has created a conversation
\* for two different users, a following FindOrCreateDirectConversation(B, A)
\* with no write in between returns the id of that conversation with
\* created = false.
FindOrCreateSymmetric ==
    \A p \in Procs, q \in Procs :
        ( /\ Mirrors(q, p) /\ call[p].created
          /\ call[p].user_id # call[p].other_user_id ) =>
            /\ call[q].conversation_id = call[p].conversation_id
            /\ call[q].created = FALSE

(* ================ properties of the Create-message answer ============= *)
\* C25: the timestamp of the Create-message response is the
\* message_timestamp of the row that the call wrote to the message log, the
\* timestamp ListByConversation reports for the message.
ReturnedTimestampIsStored ==
    \A p \in Procs :
        call[p].kind = "send_message" =>
            \E m \in messages_by_conversation :
                /\ m.message_id = call[p].message_id
                /\ m.conversation_id = call[p].conversation_id
                /\ m.message_timestamp = call[p].message_timestamp

(* ================= properties of the participant sets ================= *)
\* C26: in every state reachable through Append and FindOrCreate, every
\* summary row has a non-empty participant_ids set that contains the user_id
\* of the row; so Get conversation never takes its "Conversation has no
\* participants" (404) branch, and the user it answers with is a participant.
OwnerIsParticipant ==
    /\ \A r \in user_conversations :
            r.participant_ids # {} /\ r.user_id \in r.participant_ids
    /\ \A q \in Procs :
            call[q].kind = "get_conversation" =>
                /\ call[q].status # Http404
                /\ call[q].status = Http200 =>
                        /\ Len(call[q].response) = 1
                        /\ call[q].response[1].user_id
                                \in call[q].response[1].participant_ids

\* the index holds the row of an Append with an empty list, rows of an
\* Append whose sender is not in its list and rows of FindOrCreate for one
\* user, and Get conversation has answered for a conversation of the index
OwnerIsParticipantWitness ==
    /\ \E r \in user_conversations :
            ~IsNewConversationRow(r) /\ r.participant_ids = {"U1"}
    /\ \E r \in user_conversations :
            ~IsNewConversationRow(r) /\ r.participant_ids = {"U1", "U2"}
    /\ \E r \in user_conversations :
            IsNewConversationRow(r) /\ r.participant_ids = {"U1"}
    /\ \E q \in Procs :
            /\ call[q].kind = "get_conversation"
            /\ call[q].status = Http200
            /\ call[q].v0 = writes

(* ======================= properties of the reads ====================== *)
ReadKinds == ListingKinds \cup {"get_conversation"}

\* worker q took this step inside a call that reads: a statement of a
\* listing or of the lookup of a conversation, whether the store executed it
\* or not, or a statement of FindOrCreate before the call has decided to
\* create a conversation
ReadStep(q) ==
    /\ pc'[q] # pc[q] \/ call'[q] # call[q]
    /\ \/ call'[q].kind \in ReadKinds
       \/ /\ call'[q].kind = "create_or_get_conversation"
          /\ ~call'[q].created

\* C27: no statement of ListByConversation, ListBefore, ListForUser or
\* GetByConversationId changes a table, whether it succeeds or fails; a
\* FindOrCreate call changes no table before it decides to create, so a call
\* that returns a match (created = false) has changed none.
ReadsDoNotWrite ==
    [][\A q \in Procs : ReadStep(q) =>
            /\ messages_by_conversation' = messages_by_conversation
            /\ user_conversations' = user_conversations]_vars

\* FindOrCreate has returned a match from an index that holds two rows of
\* the conversation for the user
ReadsDoNotWriteWitness ==
    \E q \in Procs :
        /\ Returned(q) /\ ~call[q].created
        /\ call[q].v0 = writes
        /\ Cardinality({r \in UserRows(call[q].user_id) :
                            r.conversation_id = call[q].conversation_id}) = 2
        /\ messages_by_conversation # {}

=============================================================================

